---------------------------- MODULE Spec2Model ----------------------------
(***************************************************************************)
(* Model of the top-1 volume/value data collector (data_create.py) and of  *)
(* the Streamlit viewer and close -> next-open backtest (app.py).          *)
(*                                                                         *)
(* Three specifications share the variables:                               *)
(*   SpecBacktest  backtest_next_open applied to bounded input tables      *)
(*   SpecCollect   one collector run (main) next to a viewer process that  *)
(*                 calls the cached load_top1_data                         *)
(*   SpecView      script runs of the viewer over a given data directory   *)
(* Each specification keeps the variables of the others at their idle      *)
(* values.                                                                 *)
(*                                                                         *)
(* Floating-point numbers are modelled as exact rationals extended with    *)
(* the IEEE values +inf, -inf and NaN (rounding is not modelled).          *)
(***************************************************************************)
EXTENDS Integers, Sequences, FiniteSets, TLC

VARIABLES
    pc,            \* position of the modelled process (backtest call, collector run)
    df,            \* backtest: the input table [cols, rows]
    params,        \* backtest: [U, L, F, C]
    work,          \* backtest: the local frame `work` when the function returns
    result,        \* backtest: the returned pair [stats, err]
    trading_days,  \* collector: the provider's trading days, ascending
    dayIdx,        \* collector: index of the next day of get_top1_by_day's loop
    df_top,        \* collector: the top records (records / df_top / df_final)
    todoYears,     \* collector: years of the groupby loop still to visit
    abortCause,    \* collector: the call whose exception ended the run, or "none"
    unitFailed,    \* collector: a provider call of some day or ticker has raised
    files,         \* the data directory: <<kind, year>> -> [hasDate, rows]
    cache,         \* st.cache_data of load_top1_data: kind -> None or Some(table)
    vpc,           \* viewer: position of the current script run
    data_kind,     \* viewer: the selected rank type
    df_all,        \* viewer: what load_top1_data returned to this run
    df_view,       \* viewer: the filtered rows
    reached,       \* viewer: the stages this run has reached
    shown          \* viewer: what this run has put on the page

btVars == <<df, params, work, result>>
colVars == <<trading_days, dayIdx, df_top, todoYears, abortCause, unitFailed>>
dirVars == <<files, cache>>
viewVars == <<vpc, data_kind, df_all, df_view, reached, shown>>
vars == <<pc, btVars, colVars, dirVars, viewVars>>

-----------------------------------------------------------------------------
(* Bounds of the model                                                     *)

MaxRows == 2        \* rows of a backtest input table
NDays == 2          \* trading days of a collector run
FineRows == 1       \* longest table checked with the 0.5 % fee (its compounded
                    \* numerators leave TLC's 32-bit integers after two trades)

-----------------------------------------------------------------------------
(* Extended rational arithmetic: the float64 values of the program         *)

Abs(x) == IF x < 0 THEN -x ELSE x

RECURSIVE Gcd(_, _)
Gcd(a, b) == IF b = 0 THEN a ELSE Gcd(b, a % b)

Num(n, d) ==
    LET g == Gcd(Abs(n), Abs(d))
        s == IF d < 0 THEN -1 ELSE 1
    IN  [k |-> "num", n |-> s * (n \div g), d |-> s * (d \div g)]

NaN == [k |-> "nan", n |-> 0, d |-> 1]
PosInf == [k |-> "inf", n |-> 1, d |-> 1]
NegInf == [k |-> "inf", n |-> -1, d |-> 1]
FromInt(i) == [k |-> "num", n |-> i, d |-> 1]

IsNaN(x) == x.k = "nan"
IsNum(x) == x.k = "num"
Sign(x) == IF x.n > 0 THEN 1 ELSE IF x.n < 0 THEN -1 ELSE 0
InfOf(s) == IF s > 0 THEN PosInf ELSE NegInf

\* x < y and x > y as IEEE comparisons: false when either side is NaN.
FLt(x, y) ==
    /\ ~IsNaN(x) /\ ~IsNaN(y)
    /\ IF IsNum(x) /\ IsNum(y) THEN x.n * y.d < y.n * x.d
       ELSE IF IsNum(x) THEN y.n > 0
       ELSE IF IsNum(y) THEN x.n < 0
       ELSE x.n < y.n
FGt(x, y) == FLt(y, x)
FLe(x, y) == ~IsNaN(x) /\ ~IsNaN(y) /\ ~FLt(y, x)

FNeg(x) == [x EXCEPT !.n = -x.n]

FAdd(x, y) ==
    IF IsNaN(x) \/ IsNaN(y) THEN NaN
    ELSE IF IsNum(x) /\ IsNum(y)
         THEN LET g == Gcd(x.d, y.d)
              IN  Num(x.n * (y.d \div g) + y.n * (x.d \div g), (x.d \div g) * y.d)
    ELSE IF IsNum(x) THEN y
    ELSE IF IsNum(y) THEN x
    ELSE IF x.n = y.n THEN x ELSE NaN

FSub(x, y) == FAdd(x, FNeg(y))

FMul(x, y) ==
    IF IsNaN(x) \/ IsNaN(y) THEN NaN
    ELSE IF IsNum(x) /\ IsNum(y)
         THEN LET g1 == Gcd(Abs(x.n), y.d)
                  g2 == Gcd(Abs(y.n), x.d)
              IN  Num((x.n \div g1) * (y.n \div g2), (x.d \div g2) * (y.d \div g1))
    ELSE IF Sign(x) * Sign(y) = 0 THEN NaN
    ELSE InfOf(Sign(x) * Sign(y))

\* IEEE division: x/0 is +-inf for x # 0 and NaN for x = 0; no exception.
FDiv(x, y) ==
    IF IsNaN(x) \/ IsNaN(y) THEN NaN
    ELSE IF IsNum(y)
         THEN IF y.n = 0
              THEN IF Sign(x) = 0 THEN NaN ELSE InfOf(Sign(x))
              ELSE IF IsNum(x) THEN FMul(x, Num(y.d, y.n))
              ELSE InfOf(Sign(x) * Sign(y))
    ELSE IF IsNum(x) THEN FromInt(0) ELSE NaN

FMin(x, y) == IF FLt(y, x) THEN y ELSE x
FMax(x, y) == IF FGt(y, x) THEN y ELSE x

One == FromInt(1)
Zero == FromInt(0)
Hundred == FromInt(100)


-----------------------------------------------------------------------------
(* backtest_next_open (app.py)                                             *)

Null == -1          \* a missing cell (NaN / NaT / None) of an input table

RequiredCols == {"d0_close", "d+1_open", "date"}

None == <<>>        \* Python's None in a returned pair
Some(x) == <<x>>

\* df.dropna(subset=["d0_close", "d+1_open", "date"]): the rows, in their
\* order, that hold a value in all three columns.
DropNaDateIgnored(rows) ==
    SelectSeq(rows, LAMBDA r : r.close # Null /\ r.nopen # Null)
DropNa(rows) ==
    SelectSeq(rows, LAMBDA r : r.close # Null /\ r.nopen # Null /\ r.date # Null)

\* work["d+1_open"] / work["d0_close"] - 1.0
RawRet(r) == FSub(FDiv(FromInt(r.nopen), FromInt(r.close)), One)

\* Series.clip(lower=, upper=) with scalar thresholds: pandas first orders
\* the two thresholds (lower, upper = min(lower, upper), max(lower, upper)),
\* then replaces values below/above them; NaN stays NaN.
ClipNoReorder(x, lower, upper) ==
    IF IsNaN(x) THEN x
    ELSE IF FLt(x, lower) THEN lower
    ELSE IF FGt(x, upper) THEN upper
    ELSE x
Clip(x, lower, upper) ==
    LET lo == FMin(lower, upper)
        hi == FMax(lower, upper)
    IN  IF IsNaN(x) THEN x
        ELSE IF FLt(x, lo) THEN lo
        ELSE IF FGt(x, hi) THEN hi
        ELSE x

\* up = upper_pct / 100.0; down = lower_pct / 100.0;
\* work["raw_ret"].clip(lower=down, upper=up)
ClippedRet(raw, upper_pct, lower_pct) ==
    Clip(raw, FDiv(lower_pct, Hundred), FDiv(upper_pct, Hundred))

\* fee = fee_pct / 100.0; (1 + clipped_ret) * (1 - fee) - 1
NetRetFeeFirst(clipped, fee_pct) ==
    FSub(FAdd(One, clipped), FDiv(fee_pct, Hundred))
NetRet(clipped, fee_pct) ==
    FSub(FMul(FAdd(One, clipped), FSub(One, FDiv(fee_pct, Hundred))), One)

\* The three derived columns of one kept row.
WithReturns(r, p) ==
    LET raw == RawRet(r)
        clipped == ClippedRet(raw, p.U, p.L)
    IN  [date |-> r.date, close |-> r.close, nopen |-> r.nopen,
         raw_ret |-> raw, clipped_ret |-> clipped,
         net_ret |-> NetRet(clipped, p.F)]

\* work.sort_values("date"): the default sort is not stable, so rows of equal
\* date may come out in any order.
IsSortedByDate(s) == \A i \in 1..(Len(s) - 1) : s[i].date <= s[i + 1].date
SortValuesDate(s) ==
    { t \in { [i \in 1..Len(s) |-> s[q[i]]] : q \in Permutations(1..Len(s)) } :
        IsSortedByDate(t) }

\* (1 + net_ret).cumprod(): pandas skips NaN (skipna=True): a NaN entry yields
\* NaN at its own place and leaves the running product untouched.
RECURSIVE RunningProd(_, _)
RunningProd(s, i) ==
    IF i = 0 THEN One
    ELSE IF IsNaN(s[i].net_ret) THEN RunningProd(s, i - 1)
    ELSE FMul(RunningProd(s, i - 1), FAdd(One, s[i].net_ret))
CumProd(s, i) == IF IsNaN(s[i].net_ret) THEN NaN ELSE RunningProd(s, i)

\* capital * (1 + work["net_ret"]).cumprod()
Equity(s, capital) == [i \in 1..Len(s) |-> FMul(FromInt(capital), CumProd(s, i))]

RECURSIVE SumNet(_, _)
SumNet(s, i) ==
    IF i = 0 THEN Zero
    ELSE IF IsNaN(s[i].net_ret) THEN SumNet(s, i - 1)
    ELSE FAdd(SumNet(s, i - 1), s[i].net_ret)
CountNet(s) == Cardinality({i \in 1..Len(s) : ~IsNaN(s[i].net_ret)})
\* work["net_ret"].mean(): the mean of the non-NaN entries, NaN if there is none.
MeanNet(s) == FDiv(SumNet(s, Len(s)), FromInt(CountNet(s)))

\* (work["net_ret"] > 0).sum()
Wins(s) == Cardinality({i \in 1..Len(s) : FGt(s[i].net_ret, Zero)})

Stats(s, eq, capital) ==
    LET n == Len(s)
    IN  [n_trades |-> n,
         wins |-> Wins(s),
         win_rate |-> FMul(FDiv(FromInt(Wins(s)), FromInt(n)), Hundred),
         avg_ret |-> FMul(MeanNet(s), Hundred),
         total_ret |-> FMul(FSub(FDiv(eq[n], FromInt(capital)), One), Hundred),
         final_equity |-> eq[n],
         equity_series |-> [i \in 1..n |-> [date |-> s[i].date, equity |-> eq[i]]]]

\* One call of backtest_next_open(df, upper_pct, lower_pct, fee_pct, capital).
Backtest ==
    /\ pc = "bt_call"
    /\ pc' = "bt_done"
    /\ IF ~(RequiredCols \subseteq df.cols)
       THEN /\ work' = <<>>
            /\ result' = [stats |-> None, err |-> Some("missing columns")]
       ELSE LET kept == DropNa(df.rows)
            IN  IF kept = <<>>
                THEN /\ work' = <<>>
                     /\ result' = [stats |-> None, err |-> Some("no valid rows")]
                ELSE \E s \in SortValuesDate(
                                 [i \in 1..Len(kept) |-> WithReturns(kept[i], params)]) :
                        LET eq == Equity(s, params.C)
                        IN  /\ work' = [i \in 1..Len(s) |->
                                          [date |-> s[i].date, close |-> s[i].close,
                                           nopen |-> s[i].nopen, raw_ret |-> s[i].raw_ret,
                                           clipped_ret |-> s[i].clipped_ret,
                                           net_ret |-> s[i].net_ret, equity |-> eq[i]]]
                            /\ result' = [stats |-> Some(Stats(s, eq, params.C)),
                                          err |-> None]
    /\ UNCHANGED <<df, params, colVars, dirVars, viewVars>>

\* ---- the inputs of the bounded check ----
Dates == {1, 2}
CloseVals == {0, 100}
OpenVals == {0, 90, 101, 103}
PctVals == {FromInt(-1), FromInt(3)}
CapitalVals == {0, 1000000}
FeeVals(n) == IF n <= FineRows THEN {Num(1, 2), Hundred} ELSE {Zero, Hundred}

ValueRows == [date : Dates, close : CloseVals, nopen : OpenVals]
NullRows == { [date |-> Null, close |-> 100, nopen |-> 103],
              [date |-> 1, close |-> Null, nopen |-> 103],
              [date |-> 1, close |-> 100, nopen |-> Null] }
BtRows == ValueRows \cup NullRows
BtTables == UNION { [1..n -> BtRows] : n \in 0..MaxRows }

\* A table without a column holds no value in it.
Blank(r, cols) ==
    [date |-> IF "date" \in cols THEN r.date ELSE Null,
     close |-> IF "d0_close" \in cols THEN r.close ELSE Null,
     nopen |-> IF "d+1_open" \in cols THEN r.nopen ELSE Null]

NoResult == [stats |-> None, err |-> None]

BtArgs ==
    /\ \E cols \in SUBSET RequiredCols, t \in BtTables :
          df = [cols |-> cols, rows |-> [i \in 1..Len(t) |-> Blank(t[i], cols)]]
    /\ \E u \in PctVals, l \in PctVals, c \in CapitalVals :
          \E f \in FeeVals(Len(df.rows)) :
              params = [U |-> u, L |-> l, F |-> f, C |-> c]

IdleBacktest ==
    /\ df = [cols |-> {}, rows |-> <<>>]
    /\ params = [U |-> Zero, L |-> Zero, F |-> Zero, C |-> 0]
    /\ work = <<>>
    /\ result = NoResult

IdleCollector ==
    /\ trading_days = <<>>
    /\ dayIdx = 1
    /\ df_top = <<>>
    /\ todoYears = <<>>
    /\ abortCause = "none"
    /\ unitFailed = FALSE

EmptyDir == [k \in {} |-> 0]
IdleDirectory ==
    /\ files = EmptyDir
    /\ cache = [k \in {"volume", "value"} |-> <<>>]

IdleViewer ==
    /\ vpc = "v_idle"
    /\ data_kind = "volume"
    /\ df_all = <<>>
    /\ df_view = <<>>
    /\ reached = {}
    /\ shown = {}

InitBacktest ==
    /\ pc = "bt_call"
    /\ BtArgs
    /\ work = <<>>
    /\ result = NoResult
    /\ IdleCollector
    /\ IdleDirectory
    /\ IdleViewer

NextBacktest == Backtest

SpecBacktest == InitBacktest /\ [][NextBacktest]_vars

-----------------------------------------------------------------------------
(* The data directory and load_top1_data (app.py)                          *)

START_YEAR == 2000
END_YEAR == 2025

Kinds == {"volume", "value"}
\* Dates are year * 1000 + day of the year.
YearOf(d) == d \div 1000

FileExists(fs, kind, year) == <<kind, year>> \in DOMAIN fs

\* The frames load_top1_data appends to dfs: one per existing file of the kind
\* in START_YEAR..END_YEAR that has a date column, in ascending year order.
UsableFilesDateIgnored(fs, kind) ==
    {y \in START_YEAR..END_YEAR : FileExists(fs, kind, y)}
UsableFiles(fs, kind) ==
    {y \in START_YEAR..END_YEAR : FileExists(fs, kind, y) /\ fs[<<kind, y>>].hasDate}
RECURSIVE ConcatYears(_, _, _)
ConcatYears(fs, kind, years) ==
    IF years = {} THEN <<>>
    ELSE LET y == CHOOSE x \in years : \A z \in years : x <= z
         IN  fs[<<kind, y>>].rows \o ConcatYears(fs, kind, years \ {y})

\* The function body: pd.DataFrame() when dfs is empty, else the concatenation
\* sorted by date (any order among equal dates).
ReadTop1Data(fs, kind) ==
    IF UsableFiles(fs, kind) = {} THEN {<<>>}
    ELSE SortValuesDate(ConcatYears(fs, kind, UsableFiles(fs, kind)))

\* @st.cache_data: a call with an argument seen before returns the stored
\* value without running the body.
LoadTop1Data(c, fs, kind) ==
    IF c[kind] # None THEN {c[kind][1]} ELSE ReadTop1Data(fs, kind)

-----------------------------------------------------------------------------
(* The collector (data_create.py)                                          *)

WRITE_FIRST_YEAR == 2000
WRITE_LAST_YEAR == 2025

Tickers == {"A", "B", "E"}
TickerOrd(t) == IF t = "A" THEN 1 ELSE IF t = "B" THEN 2 ELSE 3
RankOrd(r) == IF r = "VALUE_TOP" THEN 1 ELSE 2
Qty == {1, 2}

\* What the provider can return.
\* The provider's calendar, of which a run hands back NDays consecutive days.
ProviderDays == <<2000004, 2000005, 2025002, 2026002>>
RECURSIVE Ascending(_)
Ascending(S) ==
    IF S = {} THEN <<>>
    ELSE LET m == CHOOSE x \in S : \A y \in S : x <= y
         IN  <<m>> \o Ascending(S \ {m})
Calendars ==
    {SubSeq(ProviderDays, i, i + NDays - 1) : i \in 1..(Len(ProviderDays) - NDays + 1)}
Snapshots == UNION {[S -> [vol : Qty, val : Qty]] : S \in SUBSET Tickers}
EtfLists == {{"E"}}
NameResults == {"", "name"}

\* Series.idxmax(): the label of the first occurrence of the maximum, in the
\* provider's row order.
IdxMaxVol(snap, rows) ==
    CHOOSE t \in rows : \A u \in rows :
        snap[t].vol > snap[u].vol \/ (snap[t].vol = snap[u].vol /\ TickerOrd(t) <= TickerOrd(u))
IdxMaxVal(snap, rows) ==
    CHOOSE t \in rows : \A u \in rows :
        snap[t].val > snap[u].val \/ (snap[t].val = snap[u].val /\ TickerOrd(t) <= TickerOrd(u))

\* A record of get_top1_by_day; of its columns the model keeps the keys of the
\* later joins and, as window and investor, whether the d-1/d+1 columns and the
\* investor columns are absent ("nocol"), null or set.
TopRecord(dt, rank, ticker) ==
    [date |-> dt, rank_type |-> rank, ticker |-> ticker,
     window |-> "nocol", investor |-> "nocol"]

AfterDay(idx) == IF idx > Len(trading_days) THEN "c_ohlcv" ELSE "c_top1"

\* main: trading_days = get_trading_days(START, END); not guarded.
GetTradingDays ==
    /\ pc = "c_start"
    /\ \/ /\ \E days \in Calendars : trading_days' = days
          /\ dayIdx' = 1
          /\ pc' = IF Len(trading_days') = 0 THEN "c_ohlcv" ELSE "c_top1"
          /\ UNCHANGED abortCause
       \/ /\ pc' = "c_aborted"
          /\ abortCause' = "trading_days"
          /\ UNCHANGED <<trading_days, dayIdx>>
    /\ UNCHANGED <<df_top, todoYears, unitFailed, btVars, viewVars, dirVars>>

\* One iteration of get_top1_by_day's loop over the trading days.
Top1Day ==
    /\ pc = "c_top1"
    /\ dayIdx <= Len(trading_days)
    /\ LET dt == trading_days[dayIdx]
       IN  \/ \* get_market_ohlcv_by_ticker raises: except -> continue
              /\ unitFailed' = TRUE
              /\ dayIdx' = dayIdx + 1
              /\ pc' = AfterDay(dayIdx + 1)
              /\ UNCHANGED <<df_top, abortCause>>
           \/ \* the snapshot is fetched; get_etf_ticker_list raises outside any try
              /\ unitFailed' = TRUE
              /\ abortCause' = "etf_list"
              /\ pc' = "c_aborted"
              /\ UNCHANGED <<df_top, dayIdx>>
           \/ \E snap \in Snapshots, etfs \in EtfLists :
                 LET rows == (DOMAIN snap) \ etfs
                 IN  /\ IF rows = {}
                        THEN UNCHANGED <<df_top, unitFailed>>
                        ELSE \* get_market_ticker_name may raise: except -> name = ""
                             \E vol_name \in NameResults, val_name \in NameResults :
                               /\ df_top' = df_top \o
                                     << TopRecord(dt, "VOLUME_TOP", IdxMaxVol(snap, rows)),
                                        TopRecord(dt, "VALUE_TOP", IdxMaxVal(snap, rows)) >>
                               /\ unitFailed' =
                                     (unitFailed \/ vol_name = "" \/ val_name = "")
                     /\ dayIdx' = dayIdx + 1
                     /\ pc' = AfterDay(dayIdx + 1)
                     /\ UNCHANGED abortCause
    /\ UNCHANGED <<trading_days, todoYears, btVars, viewVars, dirVars>>

\* pd.merge(left, right, on=[...], how="left"): every left row once per right
\* row of the same key, or once with nulls when there is none.
OnDateOnly(l, r) == l.date = r.date
OnTickerDate(l, r) == l.ticker = r.ticker /\ l.date = r.date
OnDate(l, r) == l.date = r.date

Repeat(x, n) == [i \in 1..n |-> x]
RECURSIVE MergeWindow(_, _)
MergeWindow(left, right) ==
    IF left = <<>> THEN <<>>
    ELSE LET l == Head(left)
             n == Cardinality({r \in right : OnTickerDate(l, r)})
         IN  (IF n = 0 THEN <<[l EXCEPT !.window = "null"]>>
              ELSE Repeat([l EXCEPT !.window = "set"], n))
             \o MergeWindow(Tail(left), right)
RECURSIVE MergeInvestor(_, _)
MergeInvestor(left, right) ==
    IF left = <<>> THEN <<>>
    ELSE LET l == Head(left)
             n == Cardinality({r \in right : OnTickerDate(l, r)})
         IN  (IF n = 0 THEN <<[l EXCEPT !.investor = "null"]>>
              ELSE Repeat([l EXCEPT !.investor = "set"], n))
             \o MergeInvestor(Tail(left), right)
RECURSIVE MergeIndex(_, _)
MergeIndex(left, right) ==
    IF left = <<>> THEN <<>>
    ELSE LET l == Head(left)
             n == Cardinality({r \in right : OnDate(l, r)})
         IN  (IF n = 0 THEN <<l>> ELSE Repeat(l, n))
             \o MergeIndex(Tail(left), right)

UniqueTickers(rows) == {rows[i].ticker : i \in 1..Len(rows)}
DaySet == {trading_days[i] : i \in 1..Len(trading_days)}

\* What one per-ticker fetch can do: raise, return an empty or unusable frame,
\* or return a frame indexed by the trading days, all of them or all but the
\* last.
LastDay == trading_days[Len(trading_days)]
TickerFetches ==
    [st : {"raise", "empty"}, dates : {{}}]
        \cup [st : {"ok"}, dates : {DaySet, DaySet \ {LastDay}} \ {{}}]
FetchedRows(fetch) ==
    {[ticker |-> t, date |-> d] : t \in DOMAIN fetch, d \in DaySet}
        \cap UNION {{[ticker |-> t, date |-> d] : d \in fetch[t].dates} : t \in DOMAIN fetch}

\* attach_prev_next_ohlcv(df_top, START, END)
AttachOhlcv ==
    /\ pc = "c_ohlcv"
    /\ IF df_top = <<>>
       THEN \* df_top["date"] on a frame without columns: KeyError
            /\ pc' = "c_aborted"
            /\ abortCause' = "no_records"
            /\ UNCHANGED <<df_top, unitFailed>>
       ELSE \E fetch \in [UniqueTickers(df_top) -> TickerFetches] :
               LET all_rows == FetchedRows(fetch)
               IN  /\ df_top' = IF all_rows = {} THEN df_top
                                ELSE MergeWindow(df_top, all_rows)
                   /\ unitFailed' =
                         (unitFailed \/ \E t \in DOMAIN fetch : fetch[t].st = "raise")
                   /\ pc' = "c_investor"
                   /\ UNCHANGED abortCause
    /\ UNCHANGED <<trading_days, dayIdx, todoYears, btVars, viewVars, dirVars>>

\* attach_stock_investor_data(df_top, START, END)
AttachInvestor ==
    /\ pc = "c_investor"
    /\ \E fetch \in [UniqueTickers(df_top) -> TickerFetches] :
          LET inv_records == FetchedRows(fetch)
          IN  /\ df_top' = IF inv_records = {} THEN df_top
                           ELSE MergeInvestor(df_top, inv_records)
              /\ unitFailed' =
                    (unitFailed \/ \E t \in DOMAIN fetch : fetch[t].st = "raise")
    /\ pc' = "c_index"
    /\ UNCHANGED <<trading_days, dayIdx, todoYears, abortCause, btVars, viewVars, dirVars>>

YearsOf(rows) == {YearOf(rows[i].date) : i \in 1..Len(rows)}

\* main: get_index_data (not guarded), the merge on date, the year column and
\* the start of the groupby loop.
IndexMerge ==
    /\ pc = "c_index"
    /\ \/ /\ pc' = "c_aborted"
          /\ abortCause' = "index_data"
          /\ UNCHANGED <<df_top, todoYears>>
       \/ \E idx \in SUBSET (DaySet \cup {d + 1 : d \in DaySet}) :
             /\ df_top' = MergeIndex(df_top, {[date |-> d] : d \in idx})
             /\ todoYears' = Ascending(YearsOf(df_top'))
             /\ pc' = "c_write"
             /\ UNCHANGED abortCause
    /\ UNCHANGED <<trading_days, dayIdx, unitFailed, btVars, viewVars, dirVars>>

\* df_year.sort_values(["date", "rank_type", "ticker"])
KeyLe(a, b) ==
    \/ a.date < b.date
    \/ a.date = b.date /\ RankOrd(a.rank_type) < RankOrd(b.rank_type)
    \/ a.date = b.date /\ a.rank_type = b.rank_type /\ TickerOrd(a.ticker) <= TickerOrd(b.ticker)
RECURSIVE Insert(_, _)
Insert(sorted, r) ==
    IF sorted = <<>> THEN <<r>>
    ELSE IF KeyLe(r, Head(sorted)) /\ ~KeyLe(Head(sorted), r) THEN <<r>> \o sorted
    ELSE <<Head(sorted)>> \o Insert(Tail(sorted), r)
RECURSIVE SortByKey(_)
SortByKey(rows) ==
    IF rows = <<>> THEN <<>> ELSE Insert(SortByKey(SubSeq(rows, 1, Len(rows) - 1)), rows[Len(rows)])

WithFile(fs, kind, year, rows) ==
    IF rows = <<>> THEN fs
    ELSE [k \in (DOMAIN fs) \cup {<<kind, year>>} |->
            IF k = <<kind, year>> THEN [hasDate |-> TRUE, rows |-> rows] ELSE fs[k]]

\* One iteration of main's loop over df_final.groupby("year").
WriteYear ==
    /\ pc = "c_write"
    /\ todoYears # <<>>
    /\ LET year == Head(todoYears)
           df_year == SelectSeq(df_top, LAMBDA r : YearOf(r.date) = year)
           df_year_sorted == SortByKey(df_year)
           df_vol == SelectSeq(df_year_sorted, LAMBDA r : r.rank_type = "VOLUME_TOP")
           df_val == SelectSeq(df_year_sorted, LAMBDA r : r.rank_type = "VALUE_TOP")
       IN  files' = IF year < WRITE_FIRST_YEAR \/ year > WRITE_LAST_YEAR THEN files
                    ELSE WithFile(WithFile(files, "volume", year, df_vol),
                                  "value", year, df_val)
    /\ todoYears' = Tail(todoYears)
    /\ pc' = IF todoYears' = <<>> THEN "c_done" ELSE "c_write"
    /\ UNCHANGED <<trading_days, dayIdx, df_top, abortCause, unitFailed, cache, btVars, viewVars>>

\* A script run of the viewer, in its own process, calls load_top1_data(kind).
ViewerLoad ==
    /\ pc \in {"c_start", "c_top1", "c_ohlcv", "c_investor", "c_index", "c_write",
               "c_done", "c_aborted"}
    /\ \E kind \in Kinds : \E t \in LoadTop1Data(cache, files, kind) :
          cache' = [cache EXCEPT ![kind] = Some(t)]
    /\ UNCHANGED <<pc, files, colVars, btVars, viewVars>>

InitCollect ==
    /\ pc = "c_start"
    /\ IdleBacktest
    /\ IdleCollector
    /\ IdleDirectory
    /\ IdleViewer

NextCollect ==
    \/ GetTradingDays
    \/ Top1Day
    \/ AttachOhlcv
    \/ AttachInvestor
    \/ IndexMerge
    \/ WriteYear
    \/ ViewerLoad

SpecCollect == InitCollect /\ [][NextCollect]_vars

-----------------------------------------------------------------------------
(* The viewer script (app.py), one run after another                       *)

\* Series.dt.weekday (Monday = 0) of a date year * 1000 + day of the year.
Jan1Weekday(year) ==
    IF year = 1999 THEN 4 ELSE IF year = 2000 THEN 5 ELSE IF year = 2025 THEN 2 ELSE 3
Weekday(d) == (Jan1Weekday(YearOf(d)) + (d % 1000) - 1) % 7

\* DataFrame.empty
DfEmpty(rows) == rows = <<>>

\* The columns the model keeps of a loaded frame; "d+1_open" is there when
\* some file had it.
HasNextOpen(rows) == \E i \in 1..Len(rows) : rows[i].window # "nocol"
DisplayCols == {"date", "rank_type", "ticker"}

\* The script starts (first run, or a rerun after an interaction) and reads
\* the selectbox.
RunStart ==
    /\ vpc \in {"v_idle", "v_end", "v_stopped", "v_fault"}
    /\ \E kind \in Kinds : data_kind' = kind
    /\ vpc' = "v_load"
    /\ df_all' = <<>>
    /\ df_view' = <<>>
    /\ reached' = {}
    /\ shown' = {}
    /\ UNCHANGED <<pc, btVars, colVars, dirVars>>

\* df_all = load_top1_data(data_kind); if df_all.empty: st.error; st.stop();
\* get_date_bounds.
LoadStage ==
    /\ vpc = "v_load"
    /\ \E t \in LoadTop1Data(cache, files, data_kind) :
          /\ cache' = [cache EXCEPT ![data_kind] = Some(t)]
          /\ df_all' = t
          /\ IF DfEmpty(t)
             THEN /\ shown' = shown \cup {"error_no_data"}
                  /\ vpc' = "v_stopped"
             ELSE /\ shown' = shown
                  /\ vpc' = "v_filter"
    /\ UNCHANGED <<pc, btVars, colVars, files, data_kind, df_view, reached>>

\* The date range and the Friday checkbox, then the filter. While the user has
\* picked only the first date of a range, date_input returns a 1-tuple and
\* the unpacking raises.
FilterStage ==
    /\ vpc = "v_filter"
    /\ \/ /\ vpc' = "v_fault"
          /\ shown' = shown \cup {"exception"}
          /\ UNCHANGED <<df_view, reached>>
       \/ \E start_date \in {df_all[i].date : i \in 1..Len(df_all)},
             end_date \in {df_all[i].date : i \in 1..Len(df_all)},
             exclude_friday \in BOOLEAN :
             /\ start_date <= end_date
             /\ df_view' = SelectSeq(df_all, LAMBDA r :
                              /\ r.date >= start_date /\ r.date <= end_date
                              /\ (exclude_friday => Weekday(r.date) # 4))
             /\ reached' = reached \cup {"filter"}
             /\ vpc' = "v_table"
             /\ UNCHANGED shown
    /\ UNCHANGED <<pc, btVars, colVars, dirVars, data_kind, df_all>>

\* The multiselect and the table: df_table[selected_cols].sort_values("date").
TableStage ==
    /\ vpc = "v_table"
    /\ \E selected_cols \in SUBSET DisplayCols :
          IF selected_cols = {}
          THEN /\ shown' = shown \cup {"info_select_columns"}
               /\ reached' = reached \cup {"table"}
               /\ vpc' = "v_backtest"
          ELSE IF "date" \notin selected_cols
          THEN \* sort_values on a column the selection dropped: KeyError
               /\ shown' = shown \cup {"exception"}
               /\ reached' = reached \cup {"table"}
               /\ vpc' = "v_fault"
          ELSE /\ shown' = shown \cup {"table"}
               /\ reached' = reached \cup {"table"}
               /\ vpc' = "v_backtest"
    /\ UNCHANGED <<pc, btVars, colVars, dirVars, data_kind, df_all, df_view>>

\* The backtest section: the inputs, and on the button backtest_next_open over
\* df_view, of which the stage keeps whether it failed.
BacktestStage ==
    /\ vpc = "v_backtest"
    /\ \E button \in BOOLEAN :
          shown' = IF ~button THEN shown
                   ELSE IF ~HasNextOpen(df_all) THEN shown \cup {"bt_error"}
                   ELSE IF \A i \in 1..Len(df_view) : df_view[i].window # "set"
                        THEN shown \cup {"bt_error"}
                   ELSE shown \cup {"metrics"}
    /\ reached' = reached \cup {"backtest"}
    /\ vpc' = "v_export"
    /\ UNCHANGED <<pc, btVars, colVars, dirVars, data_kind, df_all, df_view>>

\* The CSV download of df_view.
ExportStage ==
    /\ vpc = "v_export"
    /\ shown' = shown \cup (IF DfEmpty(df_view) THEN {"info_no_rows"} ELSE {"download"})
    /\ reached' = reached \cup {"export"}
    /\ vpc' = "v_end"
    /\ UNCHANGED <<pc, btVars, colVars, dirVars, data_kind, df_all, df_view>>

\* ---- the data directories of the bounded check ----
FileRow(d, kind, window) ==
    [date |-> d, rank_type |-> IF kind = "volume" THEN "VOLUME_TOP" ELSE "VALUE_TOP",
     ticker |-> "A", window |-> window, investor |-> "null"]
SampleRows(kind, year) ==
    IF year = 2000 THEN <<FileRow(2000004, kind, "set"), FileRow(2000007, kind, "null")>>
    ELSE IF year = 2025 THEN <<FileRow(2025002, kind, "nocol")>>
    ELSE <<FileRow(1999362, kind, "set")>>
Undated(rows) == [i \in 1..Len(rows) |-> [rows[i] EXCEPT !.date = Null]]
SampleYears == {1999, 2000, 2025}
FileStates(year) == IF year < START_YEAR THEN {"absent", "rows"} ELSE {"absent", "nodate", "rows"}
DirChoices ==
    {c \in [Kinds \X SampleYears -> {"absent", "nodate", "rows"}] :
        \A k \in Kinds \X SampleYears : c[k] \in FileStates(k[2])}
DirOf(c) ==
    [k \in {x \in Kinds \X SampleYears : c[x] # "absent"} |->
        IF c[k] = "rows"
        THEN [hasDate |-> TRUE, rows |-> SampleRows(k[1], k[2])]
        ELSE [hasDate |-> FALSE, rows |-> Undated(SampleRows(k[1], k[2]))]]

InitView ==
    /\ pc = "idle"
    /\ IdleBacktest
    /\ IdleCollector
    /\ IdleViewer
    /\ \E c \in DirChoices : files = DirOf(c)
    /\ cache = [k \in Kinds |-> None]

NextView ==
    \/ RunStart
    \/ LoadStage
    \/ FilterStage
    \/ TableStage
    \/ BacktestStage
    \/ ExportStage

SpecView == InitView /\ [][NextView]_vars

-----------------------------------------------------------------------------
(* Properties of backtest_next_open, checked under SpecBacktest            *)

BtDone == pc = "bt_done"
BtOk == BtDone /\ result.stats # None
TheStats == result.stats[1]
Rows == 1..Len(work)
PctOf(x) == FDiv(x, Hundred)

\* The mathematical clamp to an interval lo <= hi (an undefined value stays
\* undefined).
Clamp(x, lo, hi) ==
    IF IsNaN(x) THEN x ELSE FMax(lo, FMin(x, hi))
\* The two readings of a clamp whose bounds are used as given, lower first or
\* upper first; they differ only when lower > upper.
ClampLowerFirst(x, lower, upper) == IF IsNaN(x) THEN x ELSE FMin(upper, FMax(x, lower))
ClampUpperFirst(x, lower, upper) == IF IsNaN(x) THEN x ELSE FMax(lower, FMin(x, upper))
FeeAfter(c, f) == FSub(FMul(FAdd(One, c), FSub(One, PctOf(f))), One)
Quotient(r) == FSub(FDiv(FromInt(r.nopen), FromInt(r.close)), One)

IsExampleParams == params.U = FromInt(3) /\ params.L = FromInt(-1) /\ params.F = Num(1, 2)

\* C1 (as stated): every kept row has
\* net_return = (1 + clamp(next_open/close - 1, L/100, U/100)) * (1 - F/100) - 1
\* for every U, L, F, the clamp taking L/100 as its lower and U/100 as its
\* upper bound (in either order of application).
C1_NetFormulaAsStated ==
    BtDone =>
        \A i \in Rows :
            \/ work[i].net_ret =
                 FeeAfter(ClampLowerFirst(Quotient(work[i]), PctOf(params.L), PctOf(params.U)),
                          params.F)
            \/ work[i].net_ret =
                 FeeAfter(ClampUpperFirst(Quotient(work[i]), PctOf(params.L), PctOf(params.U)),
                          params.F)

\* C1 (amended): every kept row has
\* net_return = (1 + clamp(next_open/close - 1, min(L,U)/100, max(L,U)/100))
\*              * (1 - F/100) - 1,
\* the fee applied after clipping; close=100, next_open=103, U=3, L=-1, F=0.5,
\* C=1,000,000 gives net 0.02485 and equity 1,024,850, and close=100,
\* next_open=90 gives clipped -0.01 and net -0.01495.
C1_NetFormula ==
    BtDone =>
        /\ \A i \in Rows :
              work[i].net_ret =
                 FeeAfter(Clamp(Quotient(work[i]),
                                FMin(PctOf(params.L), PctOf(params.U)),
                                FMax(PctOf(params.L), PctOf(params.U))),
                          params.F)
        /\ IsExampleParams =>
              \A i \in Rows :
                 /\ (work[i].close = 100 /\ work[i].nopen = 103) =>
                       /\ work[i].raw_ret = Num(3, 100)
                       /\ work[i].clipped_ret = Num(3, 100)
                       /\ work[i].net_ret = Num(2485, 100000)
                       /\ (Len(work) = 1 /\ params.C = 1000000) =>
                             work[i].equity = FromInt(1024850)
                 /\ (work[i].close = 100 /\ work[i].nopen = 90) =>
                       /\ work[i].raw_ret = Num(-10, 100)
                       /\ work[i].clipped_ret = Num(-1, 100)
                       /\ work[i].net_ret = Num(-1495, 100000)

C1_Witness ==
    /\ BtOk /\ IsExampleParams /\ params.C = 1000000 /\ Len(work) = 1
    /\ work[1].close = 100 /\ work[1].nopen = 103
    /\ TheStats.final_equity = FromInt(1024850)

\* C2: the kept rows are compounded in ascending date order:
\* equity[0] = C * (1 + net[0]), equity[i] = equity[i-1] * (1 + net[i]),
\* final_equity is the last element, total_ret = (final_equity / C - 1) * 100;
\* with one kept row final_equity = C * (1 + net) and win_rate is 0 or 100.
C2_Compounding ==
    BtOk =>
        /\ IsSortedByDate(work)
        /\ work[1].equity = FMul(FromInt(params.C), FAdd(One, work[1].net_ret))
        /\ \A i \in Rows \ {1} :
              work[i].equity = FMul(work[i - 1].equity, FAdd(One, work[i].net_ret))
        /\ TheStats.final_equity = work[Len(work)].equity
        /\ TheStats.total_ret =
              FMul(FSub(FDiv(TheStats.final_equity, FromInt(params.C)), One), Hundred)
        /\ Len(work) = 1 =>
              /\ TheStats.final_equity = FMul(FromInt(params.C), FAdd(One, work[1].net_ret))
              /\ TheStats.win_rate \in {Zero, Hundred}

\* C3: whenever L <= U, the clipped return of every kept row lies in
\* [L/100, U/100], a d0_close of 0 included.
C3_ClippedInRange ==
    (BtDone /\ FLe(params.L, params.U)) =>
        \A i \in Rows :
            /\ FLe(PctOf(params.L), work[i].clipped_ret)
            /\ FLe(work[i].clipped_ret, PctOf(params.U))

\* C4: the call returns (None, reason) exactly when a required column is
\* missing or no row holds a value in all three columns, and (stats, None)
\* otherwise, with n_trades the number of rows that hold all three values;
\* never both, never neither.
FullRows == {i \in 1..Len(df.rows) :
                df.rows[i].close # Null /\ df.rows[i].nopen # Null /\ df.rows[i].date # Null}
MustFail == ~(RequiredCols \subseteq df.cols) \/ FullRows = {}
C4_ResultXorReason ==
    /\ pc \in {"bt_call", "bt_done"}
    /\ pc = "bt_call" => result = NoResult
    /\ BtDone =>
          /\ (result.stats = None) # (result.err = None)
          /\ (result.err # None) <=> MustFail
          /\ result.stats # None => TheStats.n_trades = Cardinality(FullRows)
          /\ result.stats = None => work = <<>>

C4_Witness ==
    /\ BtDone /\ RequiredCols \subseteq df.cols /\ Len(df.rows) = MaxRows
    /\ FullRows = {} /\ result.err # None /\ result.stats = None

\* C5: every element of the returned equity series is strictly positive
\* whenever F < 100 and every net_return > -1, for every capital passed.
C5_EquityPositive ==
    (BtOk /\ FLt(params.F, Hundred)
          /\ \A i \in Rows : FGt(work[i].net_ret, FromInt(-1))) =>
        \A i \in Rows : FGt(TheStats.equity_series[i].equity, Zero)

\* C10 (as stated): with L > U the bounds are used as given, so the clipped
\* return of every kept row (with a defined raw return) is L/100 or U/100.
C10_CollapsesToBounds ==
    (BtDone /\ FGt(params.L, params.U)) =>
        \A i \in Rows :
            \/ IsNaN(work[i].raw_ret)
            \/ work[i].clipped_ret \in {PctOf(params.L), PctOf(params.U)}

\* C10 (amended): with L > U the clip orders its two bounds: the clipped
\* return is the raw return clamped to [U/100, L/100], so a raw return
\* between the two passes through unchanged (an undefined raw return stays
\* undefined).
C10_BoundsReordered ==
    (BtDone /\ FGt(params.L, params.U)) =>
        \A i \in Rows :
            /\ work[i].clipped_ret =
                  Clamp(work[i].raw_ret, PctOf(params.U), PctOf(params.L))
            /\ (FLe(PctOf(params.U), work[i].raw_ret)
                  /\ FLe(work[i].raw_ret, PctOf(params.L))) =>
                  work[i].clipped_ret = work[i].raw_ret

C10_Witness ==
    /\ BtOk /\ FGt(params.L, params.U)
    /\ \E i \in Rows :
          /\ FLt(PctOf(params.U), work[i].raw_ret)
          /\ FLt(work[i].raw_ret, PctOf(params.L))
          /\ work[i].clipped_ret = work[i].raw_ret

-----------------------------------------------------------------------------
(* Properties of the collector, checked under SpecCollect                  *)

RankTypes == {"VOLUME_TOP", "VALUE_TOP"}
RankOfKind(kind) == IF kind = "volume" THEN "VOLUME_TOP" ELSE "VALUE_TOP"
CountOf(rows, d, rank) ==
    Cardinality({i \in 1..Len(rows) : rows[i].date = d /\ rows[i].rank_type = rank})
DatesOf(rows) == {rows[i].date : i \in 1..Len(rows)}
ProcessedDays == {trading_days[i] : i \in 1..(dayIdx - 1)}

\* C6: the failure of a provider call made for one day or one ticker never
\* aborts the run (the unit contributes nothing and the run goes on to the
\* write stage), and a processed day has contributed either no record or
\* exactly one VOLUME_TOP and one VALUE_TOP record.
C6_UnitFailureNeverAborts ==
    /\ (pc = "c_aborted" /\ unitFailed) => abortCause \in {"trading_days", "index_data"}
    /\ pc = "c_top1" =>
          \A d \in ProcessedDays :
              \/ CountOf(df_top, d, "VOLUME_TOP") = 0 /\ CountOf(df_top, d, "VALUE_TOP") = 0
              \/ CountOf(df_top, d, "VOLUME_TOP") = 1 /\ CountOf(df_top, d, "VALUE_TOP") = 1

\* C7: once main has written its yearly files, load_top1_data(kind) returns
\* exactly the rows written for that kind (same row count, same dates, in
\* ascending date order); every written file holds rows of its year and rank
\* type only, is not empty and is of a year in 2000..2025.
RECURSIVE WrittenRows(_, _)
WrittenRows(kind, years) ==
    IF years = {} THEN <<>>
    ELSE LET y == CHOOSE x \in years : \A z \in years : x <= z
         IN  files[<<kind, y>>].rows \o WrittenRows(kind, years \ {y})
FilesOfKind(kind) == {k[2] : k \in {f \in DOMAIN files : f[1] = kind}}
RoundTrips(kind, t) ==
    LET written == WrittenRows(kind, FilesOfKind(kind))
    IN  /\ Len(t) = Len(written)
        /\ DatesOf(t) = DatesOf(written)
        /\ IsSortedByDate(t)
FilesWellFormed ==
    \A k \in DOMAIN files :
        /\ k[2] \in 2000..2025
        /\ files[k].rows # <<>>
        /\ \A i \in 1..Len(files[k].rows) :
              /\ YearOf(files[k].rows[i].date) = k[2]
              /\ files[k].rows[i].rank_type = RankOfKind(k[1])
C7_RoundTrip ==
    /\ FilesWellFormed
    /\ pc = "c_done" =>
          \A kind \in Kinds : \A t \in LoadTop1Data(cache, files, kind) : RoundTrips(kind, t)

\* C8: at every stage of the run and in every file written, a date has at most
\* one VOLUME_TOP and at most one VALUE_TOP row, and as many of the one as of
\* the other: the day's selection emits one of each and no left-join adds,
\* duplicates or removes a record, also when one ticker is both tops of a day.
OnePerDate(rows) ==
    \A d \in DatesOf(rows) : \A rank \in RankTypes : CountOf(rows, d, rank) <= 1
KeysOf(rows) == [i \in 1..Len(rows) |-> <<rows[i].date, rows[i].rank_type, rows[i].ticker>>]
OneTopPerDateNow ==
    /\ OnePerDate(df_top)
    /\ \A d \in DatesOf(df_top) :
          CountOf(df_top, d, "VOLUME_TOP") = 1 /\ CountOf(df_top, d, "VALUE_TOP") = 1
    /\ \A k \in DOMAIN files : OnePerDate(files[k].rows)
    /\ pc \in {"c_write", "c_done"} =>
          \A k \in DOMAIN files : \A i \in 1..Len(files[k].rows) :
              \E j \in 1..Len(df_top) : df_top[j] = files[k].rows[i]
JoinsKeepRecords ==
    pc \in {"c_ohlcv", "c_investor", "c_index"} => KeysOf(df_top') = KeysOf(df_top)
C8_OneTopPerDate == []OneTopPerDateNow /\ [][JoinsKeepRecords]_vars

C8_Witness ==
    /\ pc = "c_done"
    /\ DOMAIN files # {}
    /\ \E i \in 1..Len(df_top) : \E j \in 1..Len(df_top) :
          /\ i # j
          /\ df_top[i].date = df_top[j].date
          /\ df_top[i].ticker = df_top[j].ticker
          /\ df_top[i].window = "set" /\ df_top[i].investor = "set"
          /\ \E k \in DOMAIN files : \E n \in 1..Len(files[k].rows) :
                files[k].rows[n] = df_top[i]
    /\ \E i \in 1..Len(df_top) : \E j \in 1..Len(df_top) :
          df_top[i].date = df_top[j].date /\ df_top[i].ticker # df_top[j].ticker

-----------------------------------------------------------------------------
(* Properties of the viewer, checked under SpecView                        *)

Loaded == vpc \notin {"v_idle", "v_load"}

\* C9: when no file of the selected rank type exists in 2000..2025, or every
\* such file lacks a date column, load_top1_data returns an empty result
\* without raising, and the run shows the error and stops before the filter,
\* the table, the backtest and the export stage.
C9_NoDataStops ==
    (Loaded /\ \A y \in START_YEAR..END_YEAR :
                  FileExists(files, data_kind, y) => ~files[<<data_kind, y>>].hasDate) =>
        /\ df_all = <<>>
        /\ vpc = "v_stopped"
        /\ shown = {"error_no_data"}
        /\ reached = {}

C9_Witness ==
    /\ vpc = "v_stopped"
    /\ \E y \in START_YEAR..END_YEAR :
          FileExists(files, data_kind, y) /\ ~files[<<data_kind, y>>].hasDate
    /\ FileExists(files, data_kind, 1999)
    /\ \A y \in START_YEAR..END_YEAR :
          FileExists(files, data_kind, y) => ~files[<<data_kind, y>>].hasDate

\* The table stage has run with a non-empty selection of display columns.
TableAsked == "table" \in reached /\ "info_select_columns" \notin shown

\* C11: for every non-empty subset of the display columns, those without the
\* date column included, the run renders the table without raising a fault
\* and goes on to the backtest and export sections.
C11_TableRendersAnySubset ==
    TableAsked =>
        /\ "table" \in shown
        /\ "exception" \notin shown
        /\ vpc \in {"v_backtest", "v_export", "v_end"}

=============================================================================
